---------------------------- MODULE Spec2Model ----------------------------
(***************************************************************************)
(* Model of pdf_converter.py: the filename deriver, the language-parameter *)
(* normaliser, the single-URL processor and the two batch orchestrators    *)
(* running on a ThreadPoolExecutor(max_workers=4).                         *)
(*                                                                         *)
(* Strings are sequences of one-character strings.  A URL is held as the   *)
(* six components urlparse splits it into; its path and its query are      *)
(* strings, so that strip/replace/re.sub and parse_qs/urlencode are        *)
(* computed character by character.  Only URLs that urlparse accepts are   *)
(* modelled.                                                               *)
(***************************************************************************)
EXTENDS Integers, Sequences, FiniteSets, TLC

VARIABLES
    input,      \* the `urls` argument: [isstr, items]
    variant,    \* "google" (save_google_docs_as_pdfs) or "other"
    mainpc,     \* position of the calling thread inside the batch function
    urls,       \* the local `urls` after lines 63-64 / 98-99
    dir,        \* the output directory on disk: "absent", "present", "blocked"
    files0,     \* the file names in the output directory when the call began
    files,      \* the file names present in the output directory
    tasks,      \* one record per submitted work item (future + process_url frame)
    queue,      \* executor._work_queue (FIFO of task indices)
    threads,    \* len(executor._threads)
    idle,       \* executor._idle_semaphore
    arg,        \* the URL a pure function is applied to
    res         \* the results of its successive applications

vars == <<input, variant, mainpc, urls, dir, files0, files, tasks, queue,
          threads, idle, arg, res>>

batchVars == <<input, variant, mainpc, urls, dir, files0, files, tasks, queue,
               threads, idle>>

pureVars == <<arg, res>>

---------------------------------------------------------------------------
(* Bounds *)

MaxUrls == 5
MaxPath == 5
MaxParams == 3

---------------------------------------------------------------------------
(* Strings *)

Lower == {"a","b","c","d","e","f","g","h","i","j","k","l","m",
          "n","o","p","q","r","s","t","u","v","w","x","y","z"}
Upper == {"A","B","C","D","E","F","G","H","I","J","K","L","M",
          "N","O","P","Q","R","S","T","U","V","W","X","Y","Z"}
Digits == {"0","1","2","3","4","5","6","7","8","9"}

RECURSIVE LStrip(_, _)
LStrip(s, c) == IF s # <<>> /\ Head(s) = c THEN LStrip(Tail(s), c) ELSE s

RECURSIVE RStrip(_, _)
RStrip(s, c) ==
    IF s # <<>> /\ s[Len(s)] = c THEN RStrip(SubSeq(s, 1, Len(s) - 1), c) ELSE s

\* str.strip(c)
Strip(s, c) == RStrip(LStrip(s, c), c)

\* str.replace(old, new) for one-character old and new
Replace(s, old, new) == [i \in DOMAIN s |-> IF s[i] = old THEN new ELSE s[i]]

\* the character class [^a-zA-Z0-9\-] of line 20
Disallowed(c) == c \notin (Lower \cup Upper \cup Digits \cup {"-"})

\* re.sub(r'[^a-zA-Z0-9\-]', '', s)
ReSubDisallowed(s) == SelectSeq(s, LAMBDA c : ~Disallowed(c))

\* the position of the first c in s, 0 when there is none (str.find)
RECURSIVE Find(_, _, _)
Find(s, c, from) ==
    IF from > Len(s) THEN 0
    ELSE IF s[from] = c THEN from ELSE Find(s, c, from + 1)

\* str.split(sep): the pieces of s between the occurrences of sep
RECURSIVE Split(_, _)
Split(s, sep) ==
    LET k == Find(s, sep, 1) IN
    IF k = 0 THEN <<s>>
    ELSE <<SubSeq(s, 1, k - 1)>> \o Split(SubSeq(s, k + 1, Len(s)), sep)

\* sep.join(pieces)
RECURSIVE Join(_, _)
Join(pieces, sep) ==
    IF pieces = <<>> THEN <<>>
    ELSE IF Len(pieces) = 1 THEN pieces[1]
    ELSE pieces[1] \o <<sep>> \o Join(Tail(pieces), sep)

---------------------------------------------------------------------------
(* URLs *)

Url(path, query, fragment) ==
    [scheme |-> "https", netloc |-> "x.com", path |-> path, params |-> "",
     query |-> query, fragment |-> fragment]

---------------------------------------------------------------------------
(* make_comprehensible_name, lines 8-21 *)

make_comprehensible_name_nostrip(url) ==
    ReSubDisallowed(Replace(url.path, "/", "-")) \o <<".pdf">>

make_comprehensible_name(url) ==
    LET filename == Replace(Strip(url.path, "/"), "/", "-")
    IN  ReSubDisallowed(filename) \o <<".pdf">>

---------------------------------------------------------------------------
(* urllib.parse: unquote, quote_plus, parse_qs, urlencode *)

\* the characters quote_plus leaves as they are
QuoteSafe == Lower \cup Upper \cup Digits \cup {"_", ".", "-", "~"}

\* the percent escapes of the characters that are not safe
HexChars == {" ", "%", "&", "+", "/", "="}
HexOf(c) ==
    CASE c = " " -> <<"2", "0">>
      [] c = "%" -> <<"2", "5">>
      [] c = "&" -> <<"2", "6">>
      [] c = "+" -> <<"2", "B">>
      [] c = "/" -> <<"2", "F">>
      [] c = "=" -> <<"3", "D">>

\* hex digits are read in either case
UpperHex(h) ==
    CASE h = "b" -> "B" [] h = "d" -> "D" [] h = "f" -> "F" [] OTHER -> h

IsEscape(s) ==
    /\ Len(s) >= 3
    /\ s[1] = "%"
    /\ \E c \in HexChars : HexOf(c) = <<UpperHex(s[2]), UpperHex(s[3])>>

\* unquote(s.replace('+', ' ')): '+' is a space, %XX is the character it
\* escapes, a '%' that starts no escape stays
RECURSIVE UnquotePlus(_)
UnquotePlus(s) ==
    IF s = <<>> THEN <<>>
    ELSE IF IsEscape(s)
    THEN <<CHOOSE c \in HexChars :
              HexOf(c) = <<UpperHex(s[2]), UpperHex(s[3])>> >>
         \o UnquotePlus(SubSeq(s, 4, Len(s)))
    ELSE IF Head(s) = "+" THEN <<" ">> \o UnquotePlus(Tail(s))
    ELSE <<Head(s)>> \o UnquotePlus(Tail(s))

\* quote_plus(s): a space is '+', a safe character itself, the rest %XX
RECURSIVE QuotePlus(_)
QuotePlus(s) ==
    IF s = <<>> THEN <<>>
    ELSE (IF Head(s) = " " THEN <<"+">>
          ELSE IF Head(s) \in QuoteSafe THEN <<Head(s)>>
          ELSE <<"%">> \o HexOf(Head(s)))
         \o QuotePlus(Tail(s))

\* parse_qsl(qs, keep_blank_values): the (name, value) pairs of a query in
\* order; a piece with no '=' or with an empty value is kept only when
\* keep_blank_values is set, an empty piece never
RECURSIVE ParseQsl(_, _)
ParseQsl(pieces, keep_blank_values) ==
    IF pieces = <<>> THEN <<>>
    ELSE
      LET name_value == Head(pieces)
          k == Find(name_value, "=", 1)
          name == IF k = 0 THEN name_value ELSE SubSeq(name_value, 1, k - 1)
          value == IF k = 0 THEN <<>>
                   ELSE SubSeq(name_value, k + 1, Len(name_value))
          rest == ParseQsl(Tail(pieces), keep_blank_values)
      IN  IF name_value = <<>> THEN rest
          ELSE IF k = 0 /\ ~keep_blank_values THEN rest
          ELSE IF Len(value) > 0 \/ keep_blank_values
          THEN <<[name |-> UnquotePlus(name), value |-> UnquotePlus(value)]>>
               \o rest
          ELSE rest

parse_qsl(qs, keep_blank_values) == ParseQsl(Split(qs, "&"), keep_blank_values)

\* The dict of parse_qs, in insertion order: a sequence of entries
\* [key, isstr, vals]; isstr tells a str value from a list of values.
KeyIndex(d, key) ==
    IF \E i \in DOMAIN d : d[i].key = key
    THEN CHOOSE i \in DOMAIN d : d[i].key = key
    ELSE 0

RECURSIVE DictOfPairs(_, _)
DictOfPairs(d, pairs) ==
    IF pairs = <<>> THEN d
    ELSE
      LET p == Head(pairs)
          i == KeyIndex(d, p.name)
      IN  DictOfPairs(
            IF i = 0
            THEN Append(d, [key |-> p.name, isstr |-> FALSE, vals |-> <<p.value>>])
            ELSE [d EXCEPT ![i].vals = Append(@, p.value)],
            Tail(pairs))

\* parse_qs(qs): keep_blank_values defaults to False
parse_qs(qs) == DictOfPairs(<<>>, parse_qsl(qs, FALSE))

\* d[key] = s for a str s: an existing key keeps its place, a new one is last
DictSetStrAppend(d, key, s) ==
    LET i == KeyIndex(d, key) IN
    IF i = 0 THEN Append(d, [key |-> key, isstr |-> FALSE, vals |-> <<s>>])
    ELSE [d EXCEPT ![i].vals = Append(@, s)]

DictSetStr(d, key, s) ==
    LET i == KeyIndex(d, key)
        e == [key |-> key, isstr |-> TRUE, vals |-> <<s>>]
    IN  IF i = 0 THEN Append(d, e) ELSE [d EXCEPT ![i] = e]

\* urlencode(d, doseq=True): one key=value per str value, one per element of
\* a list value
RECURSIVE EncodeEntries(_)
EncodeEntries(d) ==
    IF d = <<>> THEN <<>>
    ELSE
      LET e == Head(d) IN
      [j \in 1..Len(e.vals) |-> QuotePlus(e.key) \o <<"=">> \o QuotePlus(e.vals[j])]
      \o EncodeEntries(Tail(d))

urlencode(d) == Join(EncodeEntries(d), "&")

---------------------------------------------------------------------------
(* ensure_english_language, lines 43-58 *)

HL == <<"h", "l">>
EN == <<"e", "n">>

\* urlparse, the query rewritten, urlunparse: the other five components are
\* passed through
ensure_english_language(url) ==
    LET query_params == DictSetStr(parse_qs(url.query), HL, EN)
        new_query == urlencode(query_params)
    IN  [scheme |-> url.scheme, netloc |-> url.netloc, path |-> url.path,
         params |-> url.params, query |-> new_query, fragment |-> url.fragment]


---------------------------------------------------------------------------
(* The thread pool and process_url *)

\* ThreadPoolExecutor(max_workers=4), lines 75 and 110
max_workers == 4

\* The URLs of a batch.  U(i) has the path /d/<i>; Alias(i) is another URL
\* (another path, query and fragment) that sanitises to the same file name.
DigitOf(i) == <<"0","1","2","3","4","5","6","7","8","9">>[i + 1]
QHlFr == <<"h","l","=","f","r">>
QA1 == <<"a","=","1">>
U(i) == Url(<<"/","d","/",DigitOf(i)>>, IF i % 2 = 1 THEN QHlFr ELSE <<>>, "")
Alias(i) == Url(<<"/","d","/",DigitOf(i),"_","/">>, QA1, "sec")

Distinct(n) == [j \in 1..n |-> U(j)]
Colliding(n) ==
    [j \in 1..n |-> IF j % 2 = 1 THEN U((j + 1) \div 2) ELSE Alias(j \div 2)]

\* what the caller may pass as `urls`: one str, or a list of str
Inputs ==
    {[isstr |-> TRUE, items |-> <<U(1)>>]}
    \cup {[isstr |-> FALSE, items |-> Distinct(n)] : n \in 0..MaxUrls}
    \cup {[isstr |-> FALSE, items |-> Colliding(n)] : n \in {2, 3}}

NoUrl == Url(<<>>, <<>>, "")

\* the tasks inside check_url_response_time or inside pdfkit.from_url
Running == {i \in DOMAIN tasks : tasks[i].st \in {"probe", "render", "hung"}}
Finished == {i \in DOMAIN tasks : tasks[i].st = "done"}
Hung == {i \in DOMAIN tasks : tasks[i].st = "hung"}

\* ensure_english_language on the URLs a batch can hold, computed once
GivenUrls == {U(i) : i \in 1..MaxUrls} \cup {Alias(i) : i \in 1..MaxUrls}
NormalisedOf == [u \in GivenUrls |-> ensure_english_language(u)]

\* the URL the orchestrator hands to process_url, lines 76 and 111
SubmittedUrl(url) == IF variant = "google" THEN NormalisedOf[url] ELSE url

\* line 125: os.path.join(output_dir, make_comprehensible_name(url)); the
\* output directory is the same for every task of a call, so a file of the
\* directory is identified by its name
OutputFileFixed(url) == <<".pdf">>

OutputFile(url) == make_comprehensible_name(url)

\* line 126: the renderer leaves a file at output_file when it succeeds and
\* raises when it fails
FromUrlAlwaysWrites(fs, output_file, ok) == fs \cup {output_file}

FromUrl(fs, output_file, ok) == IF ok THEN fs \cup {output_file} ELSE fs

\* _adjust_thread_count: take the token of an idle thread or, below
\* max_workers, start a thread
AdjustNoCap(t, s) ==
    IF s > 0 THEN [threads |-> t, idle |-> s - 1]
    ELSE [threads |-> t + 1, idle |-> s]

adjust_thread_count(t, s) ==
    IF s > 0 THEN [threads |-> t, idle |-> s - 1]
    ELSE IF t < max_workers THEN [threads |-> t + 1, idle |-> s]
    ELSE [threads |-> t, idle |-> s]

\* The directory either does not exist, or exists with a file that an
\* earlier invocation left, or cannot be created.
BatchInit ==
    /\ input = [isstr |-> FALSE, items |-> <<>>]
    /\ variant = "none"
    /\ mainpc = "idle"
    /\ urls = <<>>
    /\ dir \in {"absent", "present", "blocked"}
    /\ files0 = IF dir = "present" THEN {OutputFile(U(1))} ELSE {}
    /\ files = files0
    /\ tasks = <<>>
    /\ queue = <<>>
    /\ threads = 0
    /\ idle = 0
    /\ arg = NoUrl
    /\ res = <<>>

\* the caller invokes save_google_docs_as_pdfs or save_other_webpages_as_pdfs
\* (lines 32 and 84) with a str or a list of str
CallOf(variants) ==
    /\ mainpc = "idle"
    /\ input' \in Inputs
    /\ variant' \in variants
    /\ mainpc' = "start"
    /\ UNCHANGED <<urls, dir, files0, files, tasks, queue, threads, idle,
                   pureVars>>

Call == CallOf({"google", "other"})

\* lines 60-64 / 95-99: os.makedirs(output_dir, exist_ok=True) raises when
\* the directory cannot be created, creates it when absent and accepts it
\* when present; then a str becomes a one-element list
MakedirsNotExistOk ==
    /\ mainpc = "start"
    /\ IF dir = "absent"
       THEN /\ dir' = "present"
            /\ urls' = input.items
            /\ mainpc' = IF Len(urls') = 0 THEN "harvest" ELSE "submit"
       ELSE /\ mainpc' = "raised"
            /\ UNCHANGED <<dir, urls>>
    /\ UNCHANGED <<input, variant, files0, files, tasks, queue, threads, idle,
                   pureVars>>

Makedirs ==
    /\ mainpc = "start"
    /\ IF dir = "blocked"
       THEN /\ mainpc' = "raised"
            /\ UNCHANGED <<dir, urls>>
       ELSE /\ dir' = "present"
            /\ urls' = IF input.isstr THEN <<input.items[1]>> ELSE input.items
            /\ mainpc' = IF Len(urls') = 0 THEN "harvest" ELSE "submit"
    /\ UNCHANGED <<input, variant, files0, files, tasks, queue, threads, idle,
                   pureVars>>

\* executor.submit, lines 76 / 111: a work item for process_url(url) is
\* queued and the thread count adjusted
Submit ==
    /\ mainpc = "submit"
    /\ Len(tasks) < Len(urls)
    /\ LET i == Len(tasks) + 1
           a == adjust_thread_count(threads, idle)
       IN  /\ tasks' = Append(tasks,
                  [url |-> SubmittedUrl(urls[i]), st |-> "queued",
                   response_time |-> "unset", render |-> "none",
                   nprobe |-> 0, nrender |-> 0, out |-> <<>>])
           /\ queue' = Append(queue, i)
           /\ mainpc' = IF i = Len(urls) THEN "harvest" ELSE "submit"
           /\ threads' = a.threads
           /\ idle' = a.idle
    /\ UNCHANGED <<input, variant, urls, dir, files0, files, pureVars>>

\* _worker: a thread that runs no work item takes the head of the queue,
\* enters process_url (line 120) and calls check_url_response_time (line 121)
TakeOneAtATime ==
    /\ queue # <<>>
    /\ Running = {}
    /\ tasks' = [tasks EXCEPT ![Head(queue)].st = "probe",
                              ![Head(queue)].nprobe = @ + 1]
    /\ queue' = Tail(queue)
    /\ UNCHANGED <<input, variant, mainpc, urls, dir, files0, files, threads,
                   idle, pureVars>>

Take ==
    /\ queue # <<>>
    /\ threads - Cardinality(Running) > 0
    /\ tasks' = [tasks EXCEPT ![Head(queue)].st = "probe",
                              ![Head(queue)].nprobe = @ + 1]
    /\ queue' = Tail(queue)
    /\ UNCHANGED <<input, variant, mainpc, urls, dir, files0, files, threads,
                   idle, pureVars>>

\* lines 23-30 and 121-126: the request returns a time, or fails and the
\* failure is caught and gives None; either way process_url computes the
\* output file and calls the renderer
ProbeGating(i) ==
    /\ i \in DOMAIN tasks
    /\ tasks[i].st = "probe"
    /\ \E ok \in BOOLEAN :
         /\ tasks' = [tasks EXCEPT
                ![i].response_time = IF ok THEN "time" ELSE "unset",
                ![i].nrender = IF ok THEN @ + 1 ELSE @,
                ![i].out = IF ok THEN OutputFile(tasks[i].url) ELSE @,
                ![i].st = IF ok THEN "render" ELSE "done"]
         /\ idle' = IF ok THEN idle ELSE idle + 1
    /\ UNCHANGED <<input, variant, mainpc, urls, dir, files0, files, queue,
                   threads, pureVars>>

Probe(i) ==
    /\ i \in DOMAIN tasks
    /\ tasks[i].st = "probe"
    /\ \E ok \in BOOLEAN :
         tasks' = [tasks EXCEPT
                ![i].response_time = IF ok THEN "time" ELSE "None",
                ![i].nrender = @ + 1,
                ![i].out = OutputFile(tasks[i].url),
                ![i].st = "render"]
    /\ UNCHANGED <<input, variant, mainpc, urls, dir, files0, files, queue,
                   threads, idle, pureVars>>

\* lines 126-129: the renderer returns or raises; the failure is caught,
\* process_url returns, its locals are gone, the future is finished and the
\* thread releases the idle semaphore
Render(i) ==
    /\ i \in DOMAIN tasks
    /\ tasks[i].st = "render"
    /\ \E ok \in BOOLEAN :
         /\ tasks' = [tasks EXCEPT
                ![i].render = IF ok THEN "ok" ELSE "fail",
                ![i].response_time = "unset",
                ![i].st = "done"]
         /\ files' = FromUrl(files, tasks[i].out, ok)
    /\ idle' = idle + 1
    /\ UNCHANGED <<input, variant, mainpc, urls, dir, files0, queue, threads,
                   pureVars>>

\* lines 77-82 / 112-117 and the end of the with block: as_completed yields
\* each future once it is finished and future.result() returns None,
\* process_url having caught its failures; when every future has been
\* yielded, shutdown(wait=True) joins the threads, which exit once the queue
\* is drained, and the call returns None
ExitWithNoWait ==
    /\ mainpc = "harvest"
    /\ mainpc' = "returned"
    /\ UNCHANGED <<input, variant, urls, dir, files0, files, tasks, queue,
                   threads, idle, pureVars>>

ExitWith ==
    /\ mainpc = "harvest"
    /\ Finished = DOMAIN tasks
    /\ queue = <<>>
    /\ Running = {}
    /\ mainpc' = "returned"
    /\ UNCHANGED <<input, variant, urls, dir, files0, files, tasks, queue,
                   threads, idle, pureVars>>

\* the steps of the calling thread and of the worker threads
Run ==
    \/ Makedirs
    \/ Submit
    \/ Take
    \/ \E i \in 1..MaxUrls : Probe(i)
    \/ \E i \in 1..MaxUrls : Render(i)
    \/ ExitWith

Next == Call \/ Run

Spec == BatchInit /\ [][Next]_vars

\* The same with the threads scheduled as long as one of them can take a
\* step, in a directory that no earlier invocation has filled.
FairInit == BatchInit /\ dir # "present"

FairSpec == FairInit /\ [][Next]_vars /\ WF_vars(Run)

---------------------------------------------------------------------------
(* A renderer that may hang *)

\* one call of the renderer never returns
Hang(i) ==
    /\ i \in DOMAIN tasks
    /\ tasks[i].st = "render"
    /\ Hung = {}
    /\ tasks' = [tasks EXCEPT ![i].st = "hung"]
    /\ UNCHANGED <<input, variant, mainpc, urls, dir, files0, files, queue,
                   threads, idle, pureVars>>

NextHang == CallOf({"other"}) \/ Run \/ \E i \in 1..MaxUrls : Hang(i)

\* save_other_webpages_as_pdfs into a new directory; every thread but the
\* one inside the hung call keeps being scheduled
HangInit == BatchInit /\ dir = "absent"

HangSpec == HangInit /\ [][NextHang]_vars /\ WF_vars(Run)

---------------------------------------------------------------------------
(* The pure functions applied to bounded inputs *)

SeqsUpTo(S, n) == UNION {[1..k -> S] : k \in 0..n}

BatchIdle ==
    /\ input = [isstr |-> FALSE, items |-> <<>>]
    /\ variant = "none"
    /\ mainpc = "off"
    /\ urls = <<>>
    /\ dir = "absent"
    /\ files0 = {}
    /\ files = {}
    /\ tasks = <<>>
    /\ queue = <<>>
    /\ threads = 0
    /\ idle = 0

PathChars == {"/", "a", "Z", "7", "-", "_"}
NameQueries == {<<>>, <<"x", "=", "/", "y">>}
NameFragments == {"", "s/t"}
\* after a host the path is empty or begins with a slash
UrlPaths == {p \in SeqsUpTo(PathChars, MaxPath) : p = <<>> \/ Head(p) = "/"}

NameInit ==
    /\ BatchIdle
    /\ arg \in {Url(p, q, f) : p \in UrlPaths, q \in NameQueries,
                               f \in NameFragments}
    /\ res = <<>>

DeriveName ==
    /\ res = <<>>
    /\ res' = <<make_comprehensible_name(arg)>>
    /\ UNCHANGED <<arg, batchVars>>

NameSpec == NameInit /\ [][DeriveName]_vars

\* the pieces a query is made of: key=value, key= and a bare key
QueryPieces ==
    { <<"h","l","=","f","r">>, <<"h","l","=","e","n">>, <<"h","l","=">>,
      <<"a","=","1">>, <<"a","=","+">>, <<"a","=">>,
      <<"b","=","%","2","f">>, <<"b">> }
Queries == {Join(ps, "&") : ps \in SeqsUpTo(QueryPieces, MaxParams)}
NormPaths == {<<>>, <<"/","d","/","1">>}
NormFragments == {"", "sec"}

NormInit ==
    /\ BatchIdle
    /\ arg \in {Url(p, q, f) : p \in NormPaths, q \in Queries, f \in NormFragments}
    /\ res = <<>>

\* ensure_english_language applied to the URL, then to its own result
Normalize ==
    /\ Len(res) < 2
    /\ res' = Append(res, ensure_english_language(
                              IF res = <<>> THEN arg ELSE res[Len(res)]))
    /\ UNCHANGED <<arg, batchVars>>

NormSpec == NormInit /\ [][Normalize]_vars

---------------------------------------------------------------------------
(* Properties *)

\* the file names of the URLs a batch can hold, computed once
NameOf == [u \in GivenUrls |-> make_comprehensible_name(u)]
Name(url) == NameOf[url]

RenderedOk == {i \in DOMAIN tasks : tasks[i].render = "ok"}
RenderFailed == {i \in DOMAIN tasks : tasks[i].render = "fail"}

DistinctNames ==
    \A i, j \in DOMAIN urls : i # j => Name(urls[i]) # Name(urls[j])

\* C1: at any moment of a batch call at most 4 process_url tasks are
\* executing (inside the probe or inside the renderer), however many URLs
\* the call was given.
C1_AtMostFourExecuting == Cardinality(Running) <= 4

\* four tasks executing while a fifth waits in the queue
C1_Witness == Cardinality(Running) = 4 /\ queue # <<>>

\* C2: with pairwise distinct derived file names and an initially empty
\* directory, the directory holds at every moment exactly the files of the
\* URLs whose render has succeeded, so at return n-k files when k renders
\* failed; and the call raises only when the directory cannot be created,
\* never because of a URL.
C2_FailuresAreContained ==
    /\ (files0 = {} /\ DistinctNames) =>
          /\ files = {Name(urls[i]) : i \in RenderedOk}
          /\ Cardinality(files) = Cardinality(RenderedOk)
          /\ (mainpc = "returned" =>
                 /\ RenderedOk \cup RenderFailed = DOMAIN urls
                 /\ Cardinality(files) = Len(urls) - Cardinality(RenderFailed))
    /\ (mainpc = "raised" => tasks = <<>>)

\* a batch of 5 URLs has returned, 2 renders failed, 3 files are there
C2_Witness ==
    /\ mainpc = "returned"
    /\ files0 = {}
    /\ Len(urls) = 5
    /\ DistinctNames
    /\ Cardinality(RenderFailed) = 2
    /\ Cardinality(files) = 3

C3_ReturnedImpliesAllDone ==
    mainpc = "returned" =>
        /\ Len(tasks) = Len(urls)
        /\ \A i \in DOMAIN tasks : tasks[i].st = "done"
        /\ queue = <<>>

\* C3: the batch call has returned only when every task it submitted has
\* completed, and once the directory is created the call eventually returns
\* (every probe and render terminating).
C3_BlocksUntilAllDone ==
    /\ []C3_ReturnedImpliesAllDone
    /\ (mainpc = "start" /\ dir # "blocked") ~> (mainpc = "returned")

\* a batch of 5 has returned after a failed render
C3_Witness ==
    /\ mainpc = "returned"
    /\ Len(tasks) = 5
    /\ RenderFailed # {}

\* C4: once a render call hangs, every other URL of the batch, submitted or
\* not yet, is eventually run to completion.
C4_HangStallsOneSlot ==
    (Hung # {}) ~> (\A i \in DOMAIN urls : i \in Hung \/ i \in Finished)

\* the first of 5 renders hangs and the other four tasks have completed
C4_Witness == Hung = {1} /\ Finished = {2, 3, 4, 5}

\* C5 as stated: no two submitted tasks have the same output path.
C5_AllOutputPathsDistinct ==
    \A i, j \in DOMAIN tasks :
        i # j => OutputFile(tasks[i].url) # OutputFile(tasks[j].url)

\* C5 amended: each task renders into the file named after its own URL, so
\* two tasks of a call write the same file exactly when their URLs derive
\* the same file name.
C5_SamePathIffSameName ==
    \A i, j \in DOMAIN tasks :
        (tasks[i].nrender > 0 /\ tasks[j].nrender > 0) =>
            /\ tasks[i].out = Name(urls[i])
            /\ (tasks[i].out = tasks[j].out <=> Name(urls[i]) = Name(urls[j]))

\* three renders succeeded, two of them into the same file
C5_Witness ==
    /\ Len(tasks) = 3
    /\ RenderedOk = {1, 2, 3}
    /\ urls[1] # urls[2]
    /\ tasks[1].out = tasks[2].out
    /\ tasks[1].out # tasks[3].out

\* C6: one task per entry of the input (a str counting as one entry), and
\* in each task the probe is called once and the renderer once, after the
\* probe has returned, whatever the probe returned; nothing is called again.
C6_OneProbeThenOneRender ==
    /\ mainpc \in {"submit", "harvest", "returned"} =>
          /\ Len(urls) = Len(input.items)
          /\ input.isstr => Len(urls) = 1
          /\ Len(tasks) <= Len(urls)
          /\ \A i \in DOMAIN tasks :
                tasks[i].url = IF variant = "google"
                               THEN NormalisedOf[input.items[i]]
                               ELSE input.items[i]
    /\ mainpc \in {"harvest", "returned"} => Len(tasks) = Len(urls)
    /\ \A i \in DOMAIN tasks :
          /\ tasks[i].st = "queued" => tasks[i].nprobe = 0 /\ tasks[i].nrender = 0
          /\ tasks[i].st = "probe" => tasks[i].nprobe = 1 /\ tasks[i].nrender = 0
          /\ tasks[i].st \in {"render", "done"} =>
                tasks[i].nprobe = 1 /\ tasks[i].nrender = 1

\* the single str of the input: its probe failed and its renderer is running
C6_Witness ==
    /\ input.isstr
    /\ Len(tasks) = 1
    /\ tasks[1].st = "render"
    /\ tasks[1].response_time = "None"
    /\ tasks[1].nrender = 1

\* the parameters of a query with the key hl, blank values included
HlParams(q) == SelectSeq(parse_qsl(q, TRUE), LAMBDA p : p.name = HL)
OtherParams(q) == SelectSeq(parse_qsl(q, TRUE), LAMBDA p : p.name # HL)
Count(ps, p) == Cardinality({i \in DOMAIN ps : ps[i] = p})
SameParams(ps, qs) ==
    \A p \in {ps[i] : i \in DOMAIN ps} \cup {qs[i] : i \in DOMAIN qs} :
        Count(ps, p) = Count(qs, p)

\* C7: the normalised URL has exactly one hl parameter, with the value en,
\* and normalising it again gives the same URL.
C7_IdempotentSingleHl ==
    /\ Len(res) >= 1 =>
          HlParams(res[1].query) = <<[name |-> HL, value |-> EN]>>
    /\ Len(res) = 2 => res[2] = res[1]

\* normalised twice, from a URL with several hl parameters
C7_Witness == Len(res) = 2 /\ Len(HlParams(arg.query)) >= 2

\* C8 as stated: scheme, host, path and fragment are those of the input and
\* every parameter with a key other than hl, blank values and repeated keys
\* included, is in the result with the same value and multiplicity.
C8_OnlyHlChanges ==
    Len(res) >= 1 =>
        /\ res[1].scheme = arg.scheme
        /\ res[1].netloc = arg.netloc
        /\ res[1].path = arg.path
        /\ res[1].fragment = arg.fragment
        /\ SameParams(OtherParams(res[1].query), OtherParams(arg.query))

AsciiLetterDigitHyphen == Lower \cup Upper \cup Digits \cup {"-"}

\* the reference result: the characters of the path between its first and
\* its last character that is no slash, each slash a hyphen, the characters
\* that are no ASCII letter, digit or hyphen left out, then .pdf
RefName(url) ==
    LET p == url.path
        inside(i) == /\ \E j \in 1..i : p[j] # "/"
                     /\ \E k \in i..Len(p) : p[k] # "/"
        hyphened(i) == IF p[i] = "/" THEN "-" ELSE p[i]
        kept == SelectSeq([i \in 1..Len(p) |-> i],
                          LAMBDA i : inside(i) /\ hyphened(i) \in AsciiLetterDigitHyphen)
    IN  [n \in 1..Len(kept) |-> hyphened(kept[n])] \o <<".pdf">>

\* C9: the derived name is the reference result; it ends in .pdf, its stem
\* has only ASCII letters, digits and hyphens, and a path with nothing but
\* slashes gives .pdf alone.
C9_NameIsReference ==
    Len(res) = 1 =>
        /\ res[1] = RefName(arg)
        /\ res[1][Len(res[1])] = ".pdf"
        /\ \A n \in 1..(Len(res[1]) - 1) : res[1][n] \in AsciiLetterDigitHyphen
        /\ (\A i \in DOMAIN arg.path : arg.path[i] = "/") => res[1] = <<".pdf">>

\* /a/_/ with a query and a fragment gives a-.pdf
C9_Witness ==
    /\ arg.path = <<"/", "a", "/", "_", "/">>
    /\ arg.query # <<>>
    /\ arg.fragment # ""
    /\ res = << <<"a", "-", ".pdf">> >>

\* C10: tasks exist only once the directory exists; a directory that is
\* already there is accepted and its files are kept; a call raises only
\* when the directory cannot be created, and then nothing was submitted,
\* no thread started and no file written.
C10_DirectoryFirst ==
    /\ tasks # <<>> => dir = "present"
    /\ files0 \subseteq files
    /\ mainpc = "raised" =>
          /\ dir = "blocked"
          /\ tasks = <<>>
          /\ queue = <<>>
          /\ threads = 0
          /\ files = files0

\* a batch of 5 URLs raised at the creation of the directory
C10_Witness == mainpc = "raised" /\ Len(input.items) = 5

=============================================================================
